---- MODULE Spec2Model ----
(***************************************************************************)
(* Order lifecycle of the multi-restaurant server: the order routes        *)
(* (create, set-status, cancel), the access-control middleware, the        *)
(* catalogue rows (Location, Menu, Customization) the order routes read,   *)
(* and the socket.io connections the order events are published to.        *)
(*                                                                         *)
(* Prices are integers (currency cents).  Every `await prisma...` of a     *)
(* handler is a step of its own, so that other requests and store writes   *)
(* interleave exactly where the event loop lets them.                      *)
(***************************************************************************)
EXTENDS Integers, Sequences, FiniteSets, TLC

VARIABLES
  location,       \* Location rows:       id -> [isActive]
  menu,           \* Menu rows:           id -> [price, isAvailable, locationId]
  customization,  \* Customization rows:  id -> [price, menuId]
  orders,         \* Order rows with their OrderItem / OrderItemCustomization rows
  creq,           \* the create-order request in flight (pc = "idle" when none)
  xreq,           \* the cancel request in flight, between its read and its write
  lreq,           \* the list-orders request in flight, while its two queries run
  resp,           \* the response sent by the last step (op = "none" when none)
  emitted,        \* the socket events published by the last step
  writes,         \* how many catalogue writes the store has taken
  sockets,        \* the socket.io connections: connection id -> [live, user, rooms]
  sreq            \* status changes whose update has resolved and whose emits are due

vars ==
  <<location, menu, customization, orders, creq, xreq, lreq, resp, emitted, writes,
    sockets, sreq>>

----------------------------------------------------------------------------
(* Bounds of the model *)

MaxOrders == 1         \* orders stored, where carts and the catalogue vary
MaxStatusOrders == 2   \* orders stored, where status changes are explored
MaxCartLen == 2        \* entries of a cart
MaxWrites == 2         \* catalogue writes through the store in one behaviour
MaxSockets == 2        \* socket.io connections alive at once
MaxInFlight == 2       \* status changes between their update and their emits

----------------------------------------------------------------------------
(* Users, roles and bearer tokens *)

ADMIN == "ADMIN"
KITCHEN == "KITCHEN"
WAITER == "WAITER"
CUSTOMER == "CUSTOMER"

\* The registered users: two customers and one member of each staff role.
RoleOf == <<CUSTOMER, CUSTOMER, WAITER, KITCHEN, ADMIN>>
UserIds == DOMAIN RoleOf

\* What the Authorization header carries: nothing, a token jwt.verify rejects
\* (bad signature, expired), or a token whose payload is {id, role}.
NoToken == [kind |-> "none", id |-> 0, role |-> "none"]
BadToken == [kind |-> "invalid", id |-> 0, role |-> "none"]
TokenOf(u) == [kind |-> "valid", id |-> u, role |-> RoleOf[u]]
ValidTokens == {TokenOf(u) : u \in UserIds}
Tokens == {NoToken, BadToken} \cup ValidTokens

\* req.user when no middleware has set it
NoUser == [kind |-> "none", id |-> 0, role |-> "none"]

\* authenticateToken: 401 without a token, 403 when jwt.verify fails, else
\* req.user = decoded and next().
authenticateToken(token) ==
  IF token.kind = "none" THEN [next |-> FALSE, status |-> 401, error |-> "Access token required", user |-> NoUser]
  ELSE IF token.kind = "invalid" THEN [next |-> FALSE, status |-> 403, error |-> "Invalid token", user |-> NoUser]
  ELSE [next |-> TRUE, status |-> 0, error |-> "", user |-> token]

\* requireRole(roles): 401 when req.user is unset, 403 when the role is not
\* listed, else next().
requireRole(roles, user) ==
  IF user.kind # "valid" THEN [next |-> FALSE, status |-> 401, error |-> "Authentication required"]
  ELSE IF user.role \notin roles THEN [next |-> FALSE, status |-> 403, error |-> "Insufficient permissions"]
  ELSE [next |-> TRUE, status |-> 0, error |-> ""]

requireAdmin(user) == requireRole({ADMIN}, user)
requireWaiterOrAdmin(user) == requireRole({WAITER, ADMIN}, user)
\* A gate that admits the waiter as well.
requireStaff(user) == requireRole({WAITER, KITCHEN, ADMIN}, user)
requireKitchenOrAdmin(user) == requireRole({KITCHEN, ADMIN}, user)

----------------------------------------------------------------------------
(* Order statuses *)

PENDING == "PENDING"
IN_PROGRESS == "IN_PROGRESS"
COMPLETED == "COMPLETED"
CANCELLED == "CANCELLED"
OrderStatus == {PENDING, IN_PROGRESS, COMPLETED, CANCELLED}

----------------------------------------------------------------------------
(* The catalogue as seeded, and the inputs requests are drawn from *)

LocationIds == {1, 2}          \* the Location rows at start
MenuIds == {1, 2}              \* the Menu rows; id 3 is no row
CustomizationIds == {1}        \* the Customization rows at start
LocationInputs == {1, 2, 3}
MenuInputs == {1, 2, 3}
CustomizationInputs == {1, 2}
PriceInputs == {2, 10}

SeedLocation == [l \in LocationIds |-> [isActive |-> TRUE]]
SeedMenu == [m \in MenuIds |-> [price |-> 10, isAvailable |-> TRUE, locationId |-> m]]
SeedCustomization == [c \in CustomizationIds |-> [price |-> 2, menuId |-> 1]]

\* Cart entries {menuId, quantity, customizations: [{customizationId, quantity}]}
Ref(c, q) == [customizationId |-> c, quantity |-> q]
Entry(m, q, cs) == [menuId |-> m, quantity |-> q, customizations |-> cs]
CartEntries ==
  { Entry(1, 2, <<Ref(1, 2)>>),    \* an item of location 1 with a customization
    Entry(1, 1, <<Ref(1, 0)>>),    \* a customization quantity of 0
    Entry(2, 1, <<>>),             \* an item of location 2
    Entry(3, 1, <<>>),             \* an id with no Menu row
    Entry(1, 0, <<>>) }            \* a quantity below 1

RECURSIVE SeqsUpTo(_, _)
SeqsUpTo(S, n) ==
  IF n = 0 THEN {<<>>}
  ELSE LET shorter == SeqsUpTo(S, n - 1)
       IN shorter \cup {Append(s, x) : s \in {t \in shorter : Len(t) = n - 1}, x \in S}

Carts == SeqsUpTo(CartEntries, MaxCartLen)

RECURSIVE SumSeq(_)
SumSeq(s) == IF s = <<>> THEN 0 ELSE Head(s) + SumSeq(Tail(s))

----------------------------------------------------------------------------
(* Store reads *)

\* A location lookup that does not look at isActive.
FindLocationAny(id) ==
  IF id \in DOMAIN location THEN <<location[id]>> ELSE <<>>

\* A menu lookup that does not look at isAvailable.
FindMenuAny(id) ==
  IF id \in DOMAIN menu THEN <<menu[id]>> ELSE <<>>

\* prisma.<model>.findUnique: the row as a one-element sequence, <<>> for null
FindLocationActive(id) ==
  IF id \in DOMAIN location /\ location[id].isActive THEN <<location[id]>> ELSE <<>>

FindMenuAvailable(id) ==
  IF id \in DOMAIN menu /\ menu[id].isAvailable THEN <<menu[id]>> ELSE <<>>

FindCustomization(id) ==
  IF id \in DOMAIN customization THEN <<customization[id]>> ELSE <<>>

----------------------------------------------------------------------------
(* Responses and events *)

\* What a step answered: the operation, the caller's token, the request's
\* parameters, and either the status of res.status(..).json(..) or the
\* (message, statusCode) of the error thrown to the error handler.  An error
\* thrown without a statusCode (a TypeError, a Prisma error) is recorded
\* with status 500.
NoReq == [id |-> 0, status |-> "", items |-> <<>>]
NoResp ==
  [op |-> "none", caller |-> NoToken, req |-> NoReq, status |-> 0, error |-> "",
   order |-> 0, rows |-> <<>>, total |-> 0]
Response(op, caller, req, status, error) ==
  [op |-> op, caller |-> caller, req |-> req, status |-> status, error |-> error,
   order |-> 0, rows |-> <<>>, total |-> 0]
\* a success response whose body carries the order with this id
Success(op, caller, req, status, orderId) ==
  [op |-> op, caller |-> caller, req |-> req, status |-> status, error |-> "",
   order |-> orderId, rows |-> <<>>, total |-> 0]
\* a success response whose body carries Order rows as they were read
Listing(op, caller, req, rows, total) ==
  [op |-> op, caller |-> caller, req |-> req, status |-> 200, error |-> "",
   order |-> 0, rows |-> rows, total |-> total]

\* io.to(room).emit(event, payload)
Emit(room, event, payload) == [room |-> room, event |-> event, payload |-> payload]
\* the room names `location_${locationId}` and `user_${id}`
LocationRoom(l) == "location_" \o ToString(l)
UserRoom(u) == "user_" \o ToString(u)

\* A publication that emits to the location room twice.
StatusEventsRepeated(event, order) ==
  << Emit(LocationRoom(order.locationId), event, order),
     Emit(LocationRoom(order.locationId), event, order),
     Emit(UserRoom(order.userId), event, order) >>

\* A publication that leaves the owner's room out.
StatusEventsLocationOnly(event, order) ==
  << Emit(LocationRoom(order.locationId), event, order) >>

\* The two emits after a status change: the updated order to the room of
\* its location and to the room of its owner.
StatusEvents(event, order) ==
  << Emit(LocationRoom(order.locationId), event, order),
     Emit(UserRoom(order.userId), event, order) >>

\* A publication that leaves the creating user's room out.
CreateEventsLocationOnly(locationId, user, completeOrder) ==
  << Emit(LocationRoom(locationId), "newOrder", completeOrder) >>

\* The two emits after an order is created: newOrder to the room of the
\* target location, orderCreated to the room of the creating user.
CreateEvents(locationId, user, completeOrder) ==
  << Emit(LocationRoom(locationId), "newOrder", completeOrder),
     Emit(UserRoom(user.id), "orderCreated", completeOrder) >>

----------------------------------------------------------------------------
(* POST /api/orders: create an order *)

IdleCreate ==
  [pc |-> "idle", user |-> NoUser, locationId |-> 0, items |-> <<>>,
   st |-> <<>>, total |-> 0, orderId |-> 0]

CreateReq(locationId, items) == [id |-> locationId, status |-> "", items |-> items]

\* express-validator chain of the route
CreateValid(locationId, items) ==
  /\ locationId \in Int
  /\ Len(items) >= 1
  /\ \A i \in 1..Len(items) : items[i].quantity >= 1

\* customization.quantity || 1
OrOne(q) == IF q = 0 THEN 1 ELSE q

ItemDone(item, s) ==
  s.menuRead /\ s.custRead = 1..Len(item.customizations)

AllPriced(items, st) == \A i \in 1..Len(items) : ItemDone(items[i], st[i])

\* itemTotal of an entry whose reads have all resolved
ItemTotal(item, s) == s.price * item.quantity + SumSeq(s.costs) * item.quantity

\* The request enters the handler: middleware, validators, location read.
CreateOrderStart(tokens, carts, cap) ==
  /\ creq.pc = "idle"
  /\ \E token \in tokens :
       LET auth == authenticateToken(token) IN
       IF ~auth.next
       THEN /\ resp' = Response("createOrder", token, NoReq, auth.status, auth.error)
            /\ UNCHANGED creq
       ELSE \E locationId \in LocationInputs, items \in carts :
              LET rq == CreateReq(locationId, items) IN
              IF ~CreateValid(locationId, items)
              THEN /\ resp' = Response("createOrder", token, rq, 400, "Validation failed")
                   /\ UNCHANGED creq
              ELSE IF FindLocationActive(locationId) = <<>>
              THEN /\ resp' = Response("createOrder", token, rq, 404, "Location not found")
                   /\ UNCHANGED creq
              ELSE /\ Len(orders) < cap
                   /\ resp' = NoResp
                   /\ creq' = [pc |-> "pricing", user |-> auth.user,
                                locationId |-> locationId, items |-> items,
                                st |-> [i \in 1..Len(items) |->
                                         [menuRead |-> FALSE, price |-> 0, custRead |-> {},
                                          costs |-> [k \in 1..Len(items[i].customizations) |-> 0]]],
                                total |-> 0, orderId |-> 0]
  /\ emitted' = <<>>
  /\ UNCHANGED <<location, menu, customization, orders, xreq, writes, lreq, sockets, sreq>>

\* A rejection inside Promise.all: the handler throws, the request ends.
CreateReject(status, error) ==
  /\ resp' = Response("createOrder", creq.user, CreateReq(creq.locationId, creq.items), status, error)
  /\ creq' = IdleCreate

\* The reads of entry i have resolved into st2: add its itemTotal when it is
\* complete, and move on to the transaction once every entry is.
CreateAdvance(i, s) ==
  LET st2 == [creq.st EXCEPT ![i] = s]
      total2 == IF ItemDone(creq.items[i], s)
                THEN creq.total + ItemTotal(creq.items[i], s) ELSE creq.total
  IN /\ resp' = NoResp
     /\ creq' = [creq EXCEPT !.st = st2, !.total = total2,
                              !.pc = IF AllPriced(creq.items, st2) THEN "tx" ELSE "pricing"]

\* An item the target location does not sell is accepted too.
MenuItemAnywhere(menuItem, locationId) == TRUE

\* menuItem.locationId !== locationId rejects the entry
MenuItemAtLocation(menuItem, locationId) == menuItem.locationId = locationId

\* prisma.menu.findUnique of one cart entry resolves.
CreateOrderMenuRead ==
  /\ creq.pc = "pricing"
  /\ \E i \in 1..Len(creq.items) :
       /\ ~creq.st[i].menuRead
       /\ LET item == creq.items[i]
              menuItem == FindMenuAvailable(item.menuId)
          IN IF menuItem = <<>>
             THEN CreateReject(404, "Menu item not found")
             ELSE IF ~MenuItemAtLocation(menuItem[1], creq.locationId)
             THEN CreateReject(400, "Menu item not available at this location")
             ELSE CreateAdvance(i, [creq.st[i] EXCEPT !.menuRead = TRUE, !.price = menuItem[1].price])
  /\ emitted' = <<>>
  /\ UNCHANGED <<location, menu, customization, orders, xreq, writes, lreq, sockets, sreq>>

\* prisma.customization.findUnique of one customization reference resolves.
CreateOrderCustomizationRead ==
  /\ creq.pc = "pricing"
  /\ \E i \in 1..Len(creq.items) :
       /\ creq.st[i].menuRead
       /\ \E k \in 1..Len(creq.items[i].customizations) :
            /\ k \notin creq.st[i].custRead
            /\ LET ref == creq.items[i].customizations[k]
                   customizationItem == FindCustomization(ref.customizationId)
               IN IF customizationItem = <<>>
                  THEN CreateReject(404, "Customization not found")
                  ELSE CreateAdvance(i, [creq.st[i] EXCEPT
                         !.custRead = @ \cup {k},
                         !.costs[k] = customizationItem[1].price * OrOne(ref.quantity)])
  /\ emitted' = <<>>
  /\ UNCHANGED <<location, menu, customization, orders, xreq, writes, lreq, sockets, sreq>>

\* The inner loop of the transaction: one OrderItemCustomization row per
\* reference, its price read again inside the transaction;
\* customizationItem!.price throws when the row is gone.
RECURSIVE TxCustomizations(_, _)
TxCustomizations(refs, acc) ==
  IF refs = <<>> THEN [ok |-> TRUE, rows |-> acc]
  ELSE LET customizationItem == FindCustomization(Head(refs).customizationId) IN
       IF customizationItem = <<>> THEN [ok |-> FALSE, rows |-> acc]
       ELSE TxCustomizations(Tail(refs),
              Append(acc, [customizationId |-> Head(refs).customizationId,
                           quantity |-> OrOne(Head(refs).quantity),
                           priceAtTime |-> customizationItem[1].price]))

\* The outer loop: one OrderItem row per priced entry.
RECURSIVE TxItems(_, _, _)
TxItems(items, st, acc) ==
  IF items = <<>> THEN [ok |-> TRUE, rows |-> acc]
  ELSE LET cs == TxCustomizations(Head(items).customizations, <<>>)
           orderItem == [menuId |-> Head(items).menuId,
                         quantity |-> Head(items).quantity,
                         priceAtTime |-> Head(st).price,
                         customizations |-> cs.rows]
       IN IF ~cs.ok THEN [ok |-> FALSE, rows |-> Append(acc, orderItem)]
          ELSE TxItems(Tail(items), Tail(st), Append(acc, orderItem))

\* A transaction whose Order row starts in preparation.
TxWritesInProgress(rq) ==
  LET r == TxItems(rq.items, rq.st, <<>>) IN
  [ok |-> r.ok,
   order |-> [id |-> Len(orders) + 1, locationId |-> rq.locationId, userId |-> rq.user.id,
              status |-> IN_PROGRESS, total |-> rq.total, items |-> r.rows]]

\* The rows the transaction callback writes before it returns or throws.
TxWrites(rq) ==
  LET r == TxItems(rq.items, rq.st, <<>>) IN
  [ok |-> r.ok,
   order |-> [id |-> Len(orders) + 1, locationId |-> rq.locationId, userId |-> rq.user.id,
              status |-> PENDING, total |-> rq.total, items |-> r.rows]]

\* A transaction that keeps what it wrote when its callback throws.
TransactionNoRollback(rq) ==
  LET w == TxWrites(rq) IN [committed |-> w.ok, rows |-> <<w.order>>]

\* prisma.$transaction: commit when the callback returns, roll back when it throws.
Transaction(rq) ==
  LET w == TxWrites(rq) IN
  [committed |-> w.ok, rows |-> IF w.ok THEN <<w.order>> ELSE <<>>]

CreateOrderTransaction ==
  /\ creq.pc = "tx"
  /\ LET tx == Transaction(creq) IN
     /\ orders' = orders \o tx.rows
     /\ IF tx.committed
        THEN /\ creq' = [creq EXCEPT !.pc = "hydrate", !.orderId = Len(orders) + 1]
             /\ resp' = NoResp
        ELSE CreateReject(500, "TypeError")
  /\ emitted' = <<>>
  /\ UNCHANGED <<location, menu, customization, xreq, writes, lreq, sockets, sreq>>

\* The order is read back with its relations, published and returned.
CreateOrderFinish ==
  /\ creq.pc = "hydrate"
  /\ LET completeOrder == orders[creq.orderId] IN
     /\ emitted' = CreateEvents(creq.locationId, creq.user, completeOrder)
     /\ resp' = Success("createOrder", creq.user, CreateReq(creq.locationId, creq.items),
                        201, creq.orderId)
  /\ creq' = IdleCreate
  /\ UNCHANGED <<location, menu, customization, orders, xreq, writes, lreq, sockets, sreq>>

----------------------------------------------------------------------------
(* PATCH /api/orders/:id/status and PATCH /api/orders/:id/cancel *)

OrderIdInputs == 1..(MaxStatusOrders + 1)
StatusInputs == OrderStatus \cup {"DELIVERED"}

StatusReq(orderId, status) == [id |-> orderId, status |-> status, items |-> <<>>]

\* An update that leaves a COMPLETED or CANCELLED order as it is.
UpdateOrderStatusGuarded(orderId, status) ==
  IF orders[orderId].status \in {COMPLETED, CANCELLED} THEN orders
  ELSE [orders EXCEPT ![orderId].status = status]

\* An update that writes only over a PENDING status.
UpdateOrderStatusIfPending(orderId, status) ==
  IF orders[orderId].status = PENDING
  THEN [orders EXCEPT ![orderId].status = status] ELSE orders

\* An update that also resets the order's total.
UpdateOrderStatusAndTotal(orderId, status) ==
  [orders EXCEPT ![orderId].status = status, ![orderId].total = 0]

\* prisma.order.update({where: {id}, data: {status}})
UpdateOrderStatus(orderId, status) == [orders EXCEPT ![orderId].status = status]

\* Set-status: authenticateToken, requireKitchenOrAdmin, the validator, then
\* one update and the two emits.
SetStatus(tokens) ==
  /\ \E token \in tokens :
       LET auth == authenticateToken(token)
           gate == requireKitchenOrAdmin(auth.user)
       IN IF ~auth.next
          THEN /\ resp' = Response("setStatus", token, NoReq, auth.status, auth.error)
               /\ UNCHANGED orders /\ emitted' = <<>>
          ELSE IF ~gate.next
          THEN /\ resp' = Response("setStatus", token, NoReq, gate.status, gate.error)
               /\ UNCHANGED orders /\ emitted' = <<>>
          ELSE \E orderId \in OrderIdInputs, status \in StatusInputs :
                 LET rq == StatusReq(orderId, status) IN
                 IF status \notin OrderStatus
                 THEN /\ resp' = Response("setStatus", token, rq, 400, "Validation failed")
                      /\ UNCHANGED orders /\ emitted' = <<>>
                 ELSE IF orderId \notin DOMAIN orders
                 THEN /\ resp' = Response("setStatus", token, rq, 500, "Record to update not found")
                      /\ UNCHANGED orders /\ emitted' = <<>>
                 ELSE /\ orders' = UpdateOrderStatus(orderId, status)
                      /\ emitted' = StatusEvents("orderStatusUpdated", orders'[orderId])
                      /\ resp' = Success("setStatus", token, rq, 200, orderId)
  /\ UNCHANGED <<location, menu, customization, creq, xreq, writes, lreq, sockets, sreq>>

IdleCancel == [pc |-> "idle", user |-> NoUser, orderId |-> 0]

\* An ownership check applied to every caller, staff included.
CancelOwnerOnly(user, existingOrder) == existingOrder.userId = user.id

\* The ownership check of cancel: a customer may cancel only an own order.
CancelAuthorized(user, existingOrder) ==
  ~(user.role = CUSTOMER /\ existingOrder.userId # user.id)

\* A guard that lets an order in preparation be cancelled too.
CancelAllowedUntilCompleted(existingOrder) ==
  existingOrder.status \in {PENDING, IN_PROGRESS}

\* The status guard of cancel
CancelAllowed(existingOrder) == existingOrder.status = PENDING

\* Cancel, up to its update: the order is read and checked.
CancelRead(tokens) ==
  /\ xreq.pc = "idle"
  /\ \E token \in tokens :
       LET auth == authenticateToken(token) IN
       IF ~auth.next
       THEN /\ resp' = Response("cancel", token, NoReq, auth.status, auth.error)
            /\ UNCHANGED xreq
       ELSE \E orderId \in OrderIdInputs :
              LET rq == StatusReq(orderId, "") IN
              IF orderId \notin DOMAIN orders
              THEN /\ resp' = Response("cancel", token, rq, 404, "Order not found")
                   /\ UNCHANGED xreq
              ELSE IF ~CancelAuthorized(auth.user, orders[orderId])
              THEN /\ resp' = Response("cancel", token, rq, 403, "Not authorized to cancel this order")
                   /\ UNCHANGED xreq
              ELSE IF ~CancelAllowed(orders[orderId])
              THEN /\ resp' = Response("cancel", token, rq, 400, "Can only cancel pending orders")
                   /\ UNCHANGED xreq
              ELSE /\ resp' = NoResp
                   /\ xreq' = [pc |-> "write", user |-> auth.user, orderId |-> orderId]
  /\ emitted' = <<>>
  /\ UNCHANGED <<location, menu, customization, orders, creq, writes, lreq, sockets, sreq>>

\* Cancel's update, emits and response.
CancelWrite ==
  /\ xreq.pc = "write"
  /\ orders' = UpdateOrderStatus(xreq.orderId, CANCELLED)
  /\ emitted' = StatusEvents("orderCancelled", orders'[xreq.orderId])
  /\ resp' = Success("cancel", xreq.user, StatusReq(xreq.orderId, ""), 200, xreq.orderId)
  /\ xreq' = IdleCancel
  /\ UNCHANGED <<location, menu, customization, creq, writes, lreq, sockets, sreq>>

----------------------------------------------------------------------------
(* GET /api/orders and GET /api/orders/:id *)

\* The query of list-orders: ?status=&locationId=&page=&limit=; a filter
\* that is absent is "" or 0, as `if (status)` and `if (locationId)` see it.
ListReq(status, locationId, page, limit) ==
  [id |-> locationId, status |-> status, items |-> <<page, limit>>]

\* The queries list-orders is called with: no filter, a status filter, a
\* location filter with the second page of one row, a location without
\* orders.
ListQueries ==
  { ListReq("", 0, 1, 20), ListReq(PENDING, 0, 1, 20),
    ListReq("", 1, 2, 1), ListReq("", 2, 1, 20) }

IdleList ==
  [pc |-> "idle", user |-> NoUser, req |-> NoReq,
   rowsRead |-> FALSE, rows |-> <<>>, countRead |-> FALSE, total |-> 0]

\* A where clause without the role-based filter.
VisibleToAll(user, o) == TRUE

\* whereClause.userId = req.user.id, set for a CUSTOMER only
VisibleTo(user, o) == user.role = CUSTOMER => o.userId = user.id

\* whereClause of list-orders
OrderWhere(user, rq, o) ==
  /\ VisibleTo(user, o)
  /\ rq.status # "" => o.status = rq.status
  /\ rq.id # 0 => o.locationId = rq.id

\* the ids of the orders the where clause selects, newest first
MatchingDesc(user, rq) ==
  LET n == Len(orders)
      newestFirst == [i \in 1..n |-> n + 1 - i]
  IN SelectSeq(newestFirst, LAMBDA id : OrderWhere(user, rq, orders[id]))

\* prisma.order.findMany({where, orderBy: createdAt desc, skip, take})
FindManyOrders(user, rq) ==
  LET ids == MatchingDesc(user, rq)
      skip == (rq.items[1] - 1) * rq.items[2]
      last == IF skip + rq.items[2] < Len(ids) THEN skip + rq.items[2] ELSE Len(ids)
      page == SubSeq(ids, skip + 1, last)
  IN [i \in 1..Len(page) |-> orders[page[i]]]

\* prisma.order.count({where})
CountOrders(user, rq) == Len(MatchingDesc(user, rq))

\* The request enters the handler and issues its two queries.
ListOrdersStart(tokens, queries) ==
  /\ lreq.pc = "idle"
  /\ \E token \in tokens :
       LET auth == authenticateToken(token) IN
       IF ~auth.next
       THEN /\ resp' = Response("listOrders", token, NoReq, auth.status, auth.error)
            /\ UNCHANGED lreq
       ELSE \E rq \in queries :
              /\ resp' = NoResp
              /\ lreq' = [IdleList EXCEPT !.pc = "reading", !.user = auth.user, !.req = rq]
  /\ emitted' = <<>>
  /\ UNCHANGED <<location, menu, customization, orders, creq, xreq, writes, sockets, sreq>>

\* Promise.all settles when both queries have resolved: res.json goes out
\* with the rows and the count as each query found them.
ListSettle(l) ==
  IF l.rowsRead /\ l.countRead
  THEN /\ resp' = Listing("listOrders", l.user, l.req, l.rows, l.total)
       /\ lreq' = IdleList
  ELSE /\ resp' = NoResp
       /\ lreq' = l

\* prisma.order.findMany resolves.
ListOrdersRows ==
  /\ lreq.pc = "reading" /\ ~lreq.rowsRead
  /\ ListSettle([lreq EXCEPT !.rowsRead = TRUE, !.rows = FindManyOrders(lreq.user, lreq.req)])
  /\ emitted' = <<>>
  /\ UNCHANGED <<location, menu, customization, orders, creq, xreq, writes, sockets, sreq>>

\* prisma.order.count resolves.
ListOrdersCount ==
  /\ lreq.pc = "reading" /\ ~lreq.countRead
  /\ ListSettle([lreq EXCEPT !.countRead = TRUE, !.total = CountOrders(lreq.user, lreq.req)])
  /\ emitted' = <<>>
  /\ UNCHANGED <<location, menu, customization, orders, creq, xreq, writes, sockets, sreq>>

ListOrders(tokens, queries) ==
  \/ ListOrdersStart(tokens, queries)
  \/ ListOrdersRows
  \/ ListOrdersCount

\* prisma.order.findUnique({where: {id, userId?}})
FindOrder(user, orderId) ==
  IF orderId \in DOMAIN orders /\ VisibleTo(user, orders[orderId])
  THEN <<orders[orderId]>> ELSE <<>>

\* Get-order: one read, then 404 or the order.
GetOrder(tokens) ==
  /\ \E token \in tokens :
       LET auth == authenticateToken(token) IN
       IF ~auth.next
       THEN resp' = Response("getOrder", token, NoReq, auth.status, auth.error)
       ELSE \E orderId \in OrderIdInputs :
              LET rq == StatusReq(orderId, "")
                  order == FindOrder(auth.user, orderId)
              IN IF order = <<>>
                 THEN resp' = Response("getOrder", token, rq, 404, "Order not found")
                 ELSE resp' = [Listing("getOrder", token, rq, order, 0) EXCEPT !.order = orderId]
  /\ emitted' = <<>>
  /\ UNCHANGED <<location, menu, customization, orders, creq, xreq, lreq, writes, sockets, sreq>>

----------------------------------------------------------------------------
(* The catalogue writes of the location and menu routes.                   *)
(*                                                                         *)
(* Each route is mounted as `requireAdmin, handler` with no                *)
(* authenticateToken before it, so req.user is unset when requireAdmin     *)
(* runs.  The rows are also written through the store itself (prisma:seed, *)
(* prisma:studio); those writes are the same updates the handlers issue.   *)

\* prisma.location.create: a new active row with the next id
LocationCreateRow ==
  [l \in (DOMAIN location) \cup {Cardinality(DOMAIN location) + 1} |->
     IF l \in DOMAIN location THEN location[l] ELSE [isActive |-> TRUE]]

\* prisma.location.update({data: {isActive: false}})
LocationDeleteRow(id) == [location EXCEPT ![id].isActive = FALSE]

\* An update that also moves the item to the location with the next id.
MenuUpdateRowMoving(id, price, isAvailable) ==
  [menu EXCEPT ![id].price = IF price = <<>> THEN @ ELSE price[1],
               ![id].isAvailable = IF isAvailable = <<>> THEN @ ELSE isAvailable[1],
               ![id].locationId = @ + 1]

\* prisma.menu.update({data: {price, isAvailable, ...}}); an absent field
\* (<<>>) leaves the column alone
MenuUpdateRow(id, price, isAvailable) ==
  [menu EXCEPT ![id].price = IF price = <<>> THEN @ ELSE price[1],
               ![id].isAvailable = IF isAvailable = <<>> THEN @ ELSE isAvailable[1]]

\* prisma.menu.update({data: {isAvailable: false}})
MenuDeleteRow(id) == [menu EXCEPT ![id].isAvailable = FALSE]

\* prisma.customization.update({data: {price, ...}})
CustomizationUpdateRow(id, price) == [customization EXCEPT ![id].price = price]

\* OrderItemCustomization.customizationId REFERENCES Customization ON DELETE RESTRICT
CustomizationReferenced(id) ==
  \E o \in DOMAIN orders : \E i \in DOMAIN orders[o].items :
    \E k \in DOMAIN orders[o].items[i].customizations :
      orders[o].items[i].customizations[k].customizationId = id

\* prisma.customization.delete
CustomizationDeleteRow(id) == [c \in (DOMAIN customization) \ {id} |-> customization[c]]

CatalogueFrame == UNCHANGED <<orders, creq, xreq, lreq, sockets, sreq>> /\ emitted' = <<>> /\ resp' = NoResp

StoreLocationCreate ==
  /\ writes < MaxWrites
  /\ location' = LocationCreateRow
  /\ writes' = writes + 1
  /\ UNCHANGED <<menu, customization>> /\ CatalogueFrame

StoreLocationDelete ==
  /\ writes < MaxWrites
  /\ \E id \in DOMAIN location : location' = LocationDeleteRow(id)
  /\ writes' = writes + 1
  /\ UNCHANGED <<menu, customization>> /\ CatalogueFrame

StoreMenuUpdate ==
  /\ writes < MaxWrites
  /\ \E id \in DOMAIN menu :
       \/ \E p \in PriceInputs : menu' = MenuUpdateRow(id, <<p>>, <<>>)
       \/ \E b \in BOOLEAN : menu' = MenuUpdateRow(id, <<>>, <<b>>)
  /\ writes' = writes + 1
  /\ UNCHANGED <<location, customization>> /\ CatalogueFrame

StoreMenuDelete ==
  /\ writes < MaxWrites
  /\ \E id \in DOMAIN menu : menu' = MenuDeleteRow(id)
  /\ writes' = writes + 1
  /\ UNCHANGED <<location, customization>> /\ CatalogueFrame

StoreCustomizationUpdate ==
  /\ writes < MaxWrites
  /\ \E id \in DOMAIN customization, p \in PriceInputs :
       customization' = CustomizationUpdateRow(id, p)
  /\ writes' = writes + 1
  /\ UNCHANGED <<location, menu>> /\ CatalogueFrame

StoreCustomizationDelete ==
  /\ writes < MaxWrites
  /\ \E id \in DOMAIN customization :
       /\ ~CustomizationReferenced(id)
       /\ customization' = CustomizationDeleteRow(id)
  /\ writes' = writes + 1
  /\ UNCHANGED <<location, menu>> /\ CatalogueFrame

----------------------------------------------------------------------------
(* The location and menu routes as mounted *)

\* req.user when requireAdmin runs on these routes: index.ts mounts the
\* routers without authenticateToken and the routes name only requireAdmin,
\* so whatever token the request carries, nothing has decoded it.
RouteUser(token) == NoUser

RouteFrame == emitted' = <<>> /\ UNCHANGED <<orders, creq, xreq, lreq, writes, sockets, sreq>>

Denied(op, token, gate) == resp' = Response(op, token, NoReq, gate.status, gate.error)

NotFoundRow(op, token) == resp' = Response(op, token, NoReq, 500, "Record to update not found")

\* POST /api/locations
PostLocation(tokens) ==
  /\ \E token \in tokens :
       LET gate == requireAdmin(RouteUser(token)) IN
       IF ~gate.next THEN Denied("createLocation", token, gate) /\ UNCHANGED location
       ELSE /\ location' = LocationCreateRow
            /\ resp' = Success("createLocation", token, NoReq, 201, 0)
  /\ UNCHANGED <<menu, customization>> /\ RouteFrame

\* DELETE /api/locations/:id
DeleteLocation(tokens) ==
  /\ \E token \in tokens, id \in LocationInputs :
       LET gate == requireAdmin(RouteUser(token)) IN
       IF ~gate.next THEN Denied("deleteLocation", token, gate) /\ UNCHANGED location
       ELSE IF id \notin DOMAIN location THEN NotFoundRow("deleteLocation", token) /\ UNCHANGED location
       ELSE /\ location' = LocationDeleteRow(id)
            /\ resp' = Success("deleteLocation", token, NoReq, 200, 0)
  /\ UNCHANGED <<menu, customization>> /\ RouteFrame

\* PUT /api/menu/:id
PutMenu(tokens) ==
  /\ \E token \in tokens, id \in MenuInputs :
       LET gate == requireAdmin(RouteUser(token)) IN
       IF ~gate.next THEN Denied("updateMenu", token, gate) /\ UNCHANGED menu
       ELSE IF id \notin DOMAIN menu THEN NotFoundRow("updateMenu", token) /\ UNCHANGED menu
       ELSE /\ \E p \in PriceInputs, b \in BOOLEAN : menu' = MenuUpdateRow(id, <<p>>, <<b>>)
            /\ resp' = Success("updateMenu", token, NoReq, 200, 0)
  /\ UNCHANGED <<location, customization>> /\ RouteFrame

\* DELETE /api/menu/:id
DeleteMenu(tokens) ==
  /\ \E token \in tokens, id \in MenuInputs :
       LET gate == requireAdmin(RouteUser(token)) IN
       IF ~gate.next THEN Denied("deleteMenu", token, gate) /\ UNCHANGED menu
       ELSE IF id \notin DOMAIN menu THEN NotFoundRow("deleteMenu", token) /\ UNCHANGED menu
       ELSE /\ menu' = MenuDeleteRow(id)
            /\ resp' = Success("deleteMenu", token, NoReq, 200, 0)
  /\ UNCHANGED <<location, customization>> /\ RouteFrame

\* PUT /api/menu/customizations/:customizationId
PutCustomization(tokens) ==
  /\ \E token \in tokens, id \in CustomizationInputs :
       LET gate == requireAdmin(RouteUser(token)) IN
       IF ~gate.next THEN Denied("updateCustomization", token, gate) /\ UNCHANGED customization
       ELSE IF id \notin DOMAIN customization
       THEN NotFoundRow("updateCustomization", token) /\ UNCHANGED customization
       ELSE /\ \E p \in PriceInputs : customization' = CustomizationUpdateRow(id, p)
            /\ resp' = Success("updateCustomization", token, NoReq, 200, 0)
  /\ UNCHANGED <<location, menu>> /\ RouteFrame

\* DELETE /api/menu/customizations/:customizationId
DeleteCustomization(tokens) ==
  /\ \E token \in tokens, id \in CustomizationInputs :
       LET gate == requireAdmin(RouteUser(token)) IN
       IF ~gate.next THEN Denied("deleteCustomization", token, gate) /\ UNCHANGED customization
       ELSE IF id \notin DOMAIN customization
       THEN NotFoundRow("deleteCustomization", token) /\ UNCHANGED customization
       ELSE IF CustomizationReferenced(id)
       THEN /\ resp' = Response("deleteCustomization", token, NoReq, 500, "Foreign key constraint failed")
            /\ UNCHANGED customization
       ELSE /\ customization' = CustomizationDeleteRow(id)
            /\ resp' = Success("deleteCustomization", token, NoReq, 200, 0)
  /\ UNCHANGED <<location, menu>> /\ RouteFrame

CatalogueRoute(tokens) ==
  \/ PostLocation(tokens)
  \/ DeleteLocation(tokens)
  \/ PutMenu(tokens)
  \/ DeleteMenu(tokens)
  \/ PutCustomization(tokens)
  \/ DeleteCustomization(tokens)


----------------------------------------------------------------------------
(* Set-status and cancel with the continuation after the update as a step *)

\* `await prisma.order.update(...)` resolves in a later turn of the event
\* loop than the one in which the store took the write.  Two handlers whose
\* updates are both in the store resume in the order their promises
\* resolve, which nothing in the handlers ties to the order of the writes.
\* sreq holds the handlers waiting to resume, each with the row its update
\* returned.
Resume(op, caller, orderId, order) ==
  [op |-> op, caller |-> caller, orderId |-> orderId, order |-> order]

RemoveAt(s, i) == SubSeq(s, 1, i - 1) \o SubSeq(s, i + 1, Len(s))

\* Set-status up to the point where its update is in the store.
SetStatusUpdate(tokens) ==
  /\ Len(sreq) < MaxInFlight
  /\ \E token \in tokens :
       LET auth == authenticateToken(token)
           gate == requireKitchenOrAdmin(auth.user)
       IN IF ~auth.next
          THEN /\ resp' = Response("setStatus", token, NoReq, auth.status, auth.error)
               /\ UNCHANGED <<orders, sreq>>
          ELSE IF ~gate.next
          THEN /\ resp' = Response("setStatus", token, NoReq, gate.status, gate.error)
               /\ UNCHANGED <<orders, sreq>>
          ELSE \E orderId \in OrderIdInputs, status \in StatusInputs :
                 LET rq == StatusReq(orderId, status) IN
                 IF status \notin OrderStatus
                 THEN /\ resp' = Response("setStatus", token, rq, 400, "Validation failed")
                      /\ UNCHANGED <<orders, sreq>>
                 ELSE IF orderId \notin DOMAIN orders
                 THEN /\ resp' = Response("setStatus", token, rq, 500, "Record to update not found")
                      /\ UNCHANGED <<orders, sreq>>
                 ELSE /\ orders' = UpdateOrderStatus(orderId, status)
                      /\ sreq' = Append(sreq, Resume("setStatus", token, orderId, orders'[orderId]))
                      /\ resp' = NoResp
  /\ emitted' = <<>>
  /\ UNCHANGED <<location, menu, customization, creq, xreq, lreq, writes, sockets>>

\* Cancel's update, after CancelRead let the request through.
CancelUpdate ==
  /\ xreq.pc = "write"
  /\ Len(sreq) < MaxInFlight
  /\ orders' = UpdateOrderStatus(xreq.orderId, CANCELLED)
  /\ sreq' = Append(sreq, Resume("cancel", xreq.user, xreq.orderId, orders'[xreq.orderId]))
  /\ xreq' = IdleCancel
  /\ resp' = NoResp
  /\ emitted' = <<>>
  /\ UNCHANGED <<location, menu, customization, creq, lreq, writes, sockets>>

StatusEventName(op) == IF op = "cancel" THEN "orderCancelled" ELSE "orderStatusUpdated"

\* A handler resumes after its update: the two emits with the row the
\* update returned, then the response.
StatusPublish ==
  /\ \E i \in 1..Len(sreq) :
       LET r == sreq[i] IN
       /\ emitted' = StatusEvents(StatusEventName(r.op), r.order)
       /\ resp' = Success(r.op, r.caller, StatusReq(r.orderId, IF r.op = "cancel" THEN "" ELSE r.order.status), 200, r.orderId)
       /\ sreq' = RemoveAt(sreq, i)
  /\ UNCHANGED <<location, menu, customization, orders, creq, xreq, lreq, writes, sockets>>

----------------------------------------------------------------------------
(* The socket.io connections (socket/socketHandlers.ts) *)

SocketIds == 1..MaxSockets
NoSocket == [live |-> FALSE, user |-> NoUser, rooms |-> {}]

\* What clients send as locationId: 1 is a Location row and a customer's
\* user id, 4 is the kitchen user's id and no Location row.
JoinInputs == {1, 4}

\* io.use: the handshake token is verified; a connection without a token or
\* with one jwt.verify rejects is refused with 'Authentication error'.
SocketAuth(token) ==
  IF token.kind = "valid" THEN [next |-> TRUE, error |-> "", user |-> token]
  ELSE [next |-> FALSE, error |-> "Authentication error", user |-> NoUser]

\* io.on('connection'): the connection joins the room of its user.
Connected(user) == [live |-> TRUE, user |-> user, rooms |-> {UserRoom(user.id)}]

\* A join that takes the room name as the client sent it.
JoinRoomsRaw(rooms, locationId) == rooms \cup {UserRoom(locationId)}

\* socket.join(`location_${locationId}`)
JoinRooms(rooms, locationId) == rooms \cup {LocationRoom(locationId)}

\* socket.leave(`location_${locationId}`)
LeaveRooms(rooms, locationId) == rooms \ {LocationRoom(locationId)}

SocketFrame ==
  /\ emitted' = <<>>
  /\ UNCHANGED <<location, menu, customization, orders, creq, xreq, lreq, writes, sreq>>

SocketConnect(tokens) ==
  /\ \E s \in SocketIds, token \in tokens :
       LET auth == SocketAuth(token) IN
       /\ ~sockets[s].live
       /\ IF ~auth.next
          THEN /\ resp' = Response("connect", token, NoReq, 0, auth.error)
               /\ UNCHANGED sockets
          ELSE /\ resp' = NoResp
               /\ sockets' = [sockets EXCEPT ![s] = Connected(auth.user)]
  /\ SocketFrame

JoinLocation ==
  /\ \E s \in SocketIds, locationId \in JoinInputs :
       /\ sockets[s].live
       /\ sockets' = [sockets EXCEPT ![s].rooms = JoinRooms(@, locationId)]
  /\ resp' = NoResp
  /\ SocketFrame

LeaveLocation ==
  /\ \E s \in SocketIds, locationId \in JoinInputs :
       /\ sockets[s].live
       /\ sockets' = [sockets EXCEPT ![s].rooms = LeaveRooms(@, locationId)]
  /\ resp' = NoResp
  /\ SocketFrame

\* The payload of the socket handler's broadcast; the model names a user by
\* its id where the handler puts the e-mail address of the token.
StatusNotice(orderId, status, user) ==
  [orderId |-> orderId, status |-> status, updatedBy |-> user.id]

\* socket.on('updateOrderStatus'): a KITCHEN or ADMIN connection has
\* {orderId, status, updatedBy} broadcast to the location room it names;
\* nothing is read from or written to the store.
SocketUpdateOrderStatus ==
  /\ \E s \in SocketIds, orderId \in OrderIdInputs, status \in StatusInputs,
        locationId \in JoinInputs :
       /\ sockets[s].live
       /\ emitted' =
            IF sockets[s].user.role \in {KITCHEN, ADMIN}
            THEN << Emit(LocationRoom(locationId), "orderStatusUpdated",
                         StatusNotice(orderId, status, sockets[s].user)) >>
            ELSE <<>>
  /\ resp' = NoResp
  /\ UNCHANGED <<location, menu, customization, orders, creq, xreq, lreq, writes, sockets, sreq>>

\* The connection closes; socket.io takes it out of its rooms.
SocketDisconnect ==
  /\ \E s \in SocketIds :
       /\ sockets[s].live
       /\ sockets' = [sockets EXCEPT ![s] = NoSocket]
  /\ resp' = NoResp
  /\ SocketFrame

\* io.to(room).emit(...): the events of a step that reach a connection, one
\* copy for each emit to a room the connection is in.
Receives(s, events) ==
  SelectSeq(events, LAMBDA e : sockets[s].live /\ e.room \in sockets[s].rooms)

----------------------------------------------------------------------------
(* POST /api/orders when the store fails after the commit *)

\* The re-read of the hydrated order (prisma.order.findUnique after the
\* transaction) rejects: the handler throws, nothing undoes the commit, and
\* the error handler answers.
CreateOrderHydrateFails ==
  /\ creq.pc = "hydrate"
  /\ CreateReject(500, "Can't reach database server")
  /\ emitted' = <<>>
  /\ UNCHANGED <<location, menu, customization, orders, xreq, lreq, writes, sockets, sreq>>

----------------------------------------------------------------------------
(* Specifications *)

Init ==
  /\ location = SeedLocation
  /\ menu = SeedMenu
  /\ customization = SeedCustomization
  /\ orders = <<>>
  /\ creq = IdleCreate
  /\ xreq = IdleCancel
  /\ lreq = IdleList
  /\ resp = NoResp
  /\ emitted = <<>>
  /\ writes = 0
  /\ sockets = [s \in SocketIds |-> NoSocket]
  /\ sreq = <<>>

\* The steps of one create-order request
CreateOrder(tokens, carts, cap) ==
  \/ CreateOrderStart(tokens, carts, cap)
  \/ CreateOrderMenuRead
  \/ CreateOrderCustomizationRead
  \/ CreateOrderTransaction
  \/ CreateOrderFinish

StoreWrite ==
  \/ StoreLocationCreate
  \/ StoreLocationDelete
  \/ StoreMenuUpdate
  \/ StoreMenuDelete
  \/ StoreCustomizationUpdate
  \/ StoreCustomizationDelete

\* The whole system
Next ==
  \/ CreateOrder(Tokens, Carts, MaxOrders)
  \/ CatalogueRoute(Tokens)
  \/ SetStatus(Tokens)
  \/ CancelRead(Tokens)
  \/ CancelWrite
  \/ ListOrders(Tokens, ListQueries)
  \/ GetOrder(Tokens)
  \/ StoreWrite
  \/ SetStatusUpdate(Tokens)
  \/ CancelUpdate
  \/ StatusPublish
  \/ CreateOrderHydrateFails
  \/ SocketConnect(Tokens)
  \/ JoinLocation
  \/ LeaveLocation
  \/ SocketUpdateOrderStatus
  \/ SocketDisconnect

Spec == Init /\ [][Next]_vars

\* Order creation against a changing catalogue: every cart, ordered by a
\* customer, under every interleaving of the request's reads and its
\* transaction with catalogue writes, and the administrator's requests to
\* the location routes.
CreateTokens == {BadToken, TokenOf(1)}
RouteTokens == {TokenOf(5)}
NextCreate ==
  \/ CreateOrder(CreateTokens, Carts, MaxOrders)
  \/ PostLocation(RouteTokens)
  \/ DeleteLocation(RouteTokens)
  \/ StoreWrite

SpecCreate == Init /\ [][NextCreate]_vars

\* The status life of stored orders: orders of one entry, created by either
\* customer or by the waiter, then set-status and cancel requests of every
\* caller in every interleaving.
PlainCarts == {<<Entry(1, 2, <<Ref(1, 2)>>)>>}
OwnerTokens == {TokenOf(1), TokenOf(2), TokenOf(3)}
NextStatus ==
  \/ CreateOrder(OwnerTokens, PlainCarts, MaxStatusOrders)
  \/ SetStatus(Tokens)
  \/ CancelRead(Tokens)
  \/ CancelWrite

SpecStatus == Init /\ [][NextStatus]_vars

\* Reading orders: orders of either customer, the kitchen's status
\* changes, list-orders requests of a customer and of the waiter, and
\* get-order requests of every caller.
CustomerTokens == {TokenOf(1), TokenOf(2)}
KitchenTokens == {TokenOf(4)}
ListTokens == {TokenOf(1), TokenOf(3)}
NextRead ==
  \/ CreateOrder(CustomerTokens, PlainCarts, MaxStatusOrders)
  \/ SetStatus(KitchenTokens)
  \/ ListOrders(ListTokens, ListQueries)
  \/ GetOrder(Tokens)

SpecRead == Init /\ [][NextRead]_vars

\* Stored orders against everything that writes afterwards: a customer's
\* order, the kitchen's status changes, the owner's cancel, and the updates
\* of menu items and customizations, through the routes and the store.
FirstCustomer == {TokenOf(1)}
NextFrame ==
  \/ CreateOrder(FirstCustomer, PlainCarts, MaxOrders)
  \/ SetStatus(KitchenTokens)
  \/ CancelRead(FirstCustomer)
  \/ CancelWrite
  \/ PutMenu(RouteTokens)
  \/ PutCustomization(RouteTokens)
  \/ StoreMenuUpdate
  \/ StoreMenuDelete
  \/ StoreCustomizationUpdate

SpecFrame == Init /\ [][NextFrame]_vars

\* Connections and their rooms next to the lifecycle of one order: a
\* customer's, another customer's and the kitchen's connections join and
\* leave rooms while the order is created, set and cancelled.
SocketTokens == {NoToken, BadToken, TokenOf(1), TokenOf(2), TokenOf(4)}

NextSocket ==
  \/ CreateOrder(FirstCustomer, PlainCarts, MaxOrders)
  \/ SetStatus(KitchenTokens)
  \/ CancelRead(FirstCustomer)
  \/ CancelWrite
  \/ SocketConnect(SocketTokens)
  \/ JoinLocation
  \/ LeaveLocation
  \/ SocketUpdateOrderStatus
  \/ SocketDisconnect

SpecSocket == Init /\ [][NextSocket]_vars

\* Status changes of one order racing each other, each resuming after its
\* update in an order of its own.
NextRace ==
  \/ CreateOrder(FirstCustomer, PlainCarts, MaxOrders)
  \/ SetStatusUpdate(KitchenTokens)
  \/ CancelRead(FirstCustomer)
  \/ CancelUpdate
  \/ StatusPublish

SpecRace == Init /\ [][NextRace]_vars

\* Order creation against a store that may fail the read after the commit.
NextFault ==
  \/ CreateOrder(CreateTokens, Carts, MaxStatusOrders)
  \/ CreateOrderHydrateFails

SpecFault == Init /\ [][NextFault]_vars

----------------------------------------------------------------------------
(* Properties of order creation *)

\* What a stored line is worth by its own snapshots
LineSum(line) ==
  line.priceAtTime * line.quantity
    + SumSeq([k \in 1..Len(line.customizations) |->
               line.customizations[k].priceAtTime * line.customizations[k].quantity])
      * line.quantity

OrderSum(o) == SumSeq([i \in 1..Len(o.items) |-> LineSum(o.items[i])])

\* C1: in every reachable state every stored order's total equals the sum
\* over its lines of priceAtTime x quantity plus (the sum of its snapshots'
\* priceAtTime x quantity) x quantity, also when prices are updated between
\* the pricing step and the transaction.
C1_TotalIsSumOfSnapshots ==
  \A o \in DOMAIN orders : orders[o].total = OrderSum(orders[o])

\* The stored order is the cart: one line per entry, in order, and one
\* snapshot per customization reference of the entry.
OrderMatchesCart(o, items) ==
  /\ Len(o.items) = Len(items)
  /\ \A i \in 1..Len(items) :
       /\ o.items[i].menuId = items[i].menuId
       /\ o.items[i].quantity = items[i].quantity
       /\ Len(o.items[i].customizations) = Len(items[i].customizations)
       /\ \A k \in 1..Len(items[i].customizations) :
            o.items[i].customizations[k].customizationId
              = items[i].customizations[k].customizationId

C2_Step ==
  /\ \/ orders' = orders
     \/ /\ creq.pc = "tx"
        /\ Len(orders') = Len(orders) + 1
        /\ SubSeq(orders', 1, Len(orders)) = orders
        /\ OrderMatchesCart(orders'[Len(orders')], creq.items)
  /\ (creq.pc = "tx" /\ creq'.pc # "hydrate") => orders' = orders

\* C2: order creation is all-or-nothing: a step changes the stored rows
\* only by adding one order that has a line for every cart entry and a
\* snapshot for every customization reference, and a transaction that fails
\* (a referenced customization was deleted after pricing) leaves no row.
C2_AllOrNothing == [][C2_Step]_vars

\* A two-entry request whose transaction failed on a deleted customization
\* has been answered, and the store holds no order.
C2_Witness ==
  /\ resp.op = "createOrder" /\ resp.error = "TypeError"
  /\ Len(resp.req.items) = 2
  /\ orders = <<>>

\* the step answered a create-order request of an authenticated caller
CreateAnswered == resp'.op = "createOrder" /\ resp'.caller.kind = "valid"

\* the step answered it from inside Promise.all or the transaction
CreateAnsweredInFlight == CreateAnswered /\ creq.pc # "idle"

LocationMismatch == "Menu item not available at this location"
ItemNotFound == "Menu item not found"
CustomizationNotFound == "Customization not found"
LocationNotFound == "Location not found"

\* the cart names a Menu row of another location than the target
HasForeignItem(locationId, items) ==
  \E i \in 1..Len(items) :
    items[i].menuId \in DOMAIN menu /\ menu[items[i].menuId].locationId # locationId

\* the cart names an id without a Menu row, or a row that is not available
HasMissingItem(items) ==
  \E i \in 1..Len(items) :
    items[i].menuId \notin DOMAIN menu \/ ~menu[items[i].menuId].isAvailable

HasMissingCustomization(items) ==
  \E i \in 1..Len(items) : \E k \in 1..Len(items[i].customizations) :
    items[i].customizations[k].customizationId \notin DOMAIN customization

\* C8 as claimed, for the requests that pass authentication, validation and
\* the location check: if the cart names an item of another location the
\* request fails with LocationMismatch, whatever the other entries are.
C8_AlwaysLocationMismatch ==
  [][(CreateAnsweredInFlight /\ HasForeignItem(resp'.req.id, resp'.req.items))
       => (resp'.error = LocationMismatch /\ orders' = orders)]_vars

C8_Step ==
  /\ (CreateAnswered /\ HasForeignItem(resp'.req.id, resp'.req.items)) =>
       /\ resp'.status \in {400, 404}
       /\ orders' = orders
       /\ resp'.error = "Validation failed" => ~CreateValid(resp'.req.id, resp'.req.items)
       /\ resp'.error = LocationNotFound => FindLocationAny(resp'.req.id) = <<>>
                                              \/ ~location[resp'.req.id].isActive
       /\ resp'.error = ItemNotFound => HasMissingItem(resp'.req.items)
       /\ resp'.error = CustomizationNotFound => HasMissingCustomization(resp'.req.items)
       /\ resp'.error \in {"Validation failed", LocationNotFound, ItemNotFound,
                            CustomizationNotFound, LocationMismatch}
  /\ creq'.pc \in {"tx", "hydrate"} => ~HasForeignItem(creq'.locationId, creq'.items)

\* C8 (amended): a create-order whose cart names an item of another
\* location never reaches the transaction; it fails and stores nothing, with
\* LocationMismatch unless another check fails first: Validation for an
\* invalid cart, LocationNotFound for a missing or inactive target,
\* ItemNotFound for an entry whose item is missing or unavailable,
\* CustomizationNotFound for a missing customization.
C8_ForeignItemRejected == [][C8_Step]_vars

\* A two-entry cart with one item of the target location and one of
\* another location has been refused with LocationMismatch.
C8_Witness ==
  /\ resp.op = "createOrder" /\ resp.error = LocationMismatch /\ resp.status = 400
  /\ Len(resp.req.items) = 2
  /\ \E i \in 1..2 : resp.req.items[i].menuId \in DOMAIN menu
                       /\ menu[resp.req.items[i].menuId].locationId = resp.req.id
  /\ orders = <<>>

\* the step answered the request because a menu read came back empty
MenuReadFailed == CreateAnsweredInFlight /\ resp'.error = ItemNotFound

\* C9 as claimed: an entry whose menu item exists with isAvailable = false
\* fails with an outcome other than the one for an id with no menu item, so
\* the ItemNotFound answer is given only to a cart naming such an id.
C9_UnavailableIsDistinct ==
  [][MenuReadFailed =>
       \E i \in 1..Len(creq.items) : creq.items[i].menuId \notin DOMAIN menu]_vars

C9_Step ==
  /\ MenuReadFailed =>
       /\ resp'.status = 404
       /\ orders' = orders
       /\ \E i \in 1..Len(creq.items) :
            /\ ~creq.st[i].menuRead
            /\ \/ creq.items[i].menuId \notin DOMAIN menu
               \/ ~menu[creq.items[i].menuId].isAvailable
  /\ (creq.pc = "pricing" /\ creq'.pc # "idle") =>
       \A i \in 1..Len(creq.items) :
         (~creq.st[i].menuRead /\ creq'.st[i].menuRead) =>
           /\ creq.items[i].menuId \in DOMAIN menu
           /\ menu[creq.items[i].menuId].isAvailable

\* C9 (amended): a cart entry whose menu item is unavailable and a cart
\* entry whose id has no menu item fail alike, with 404 "Menu item with ID
\* .. not found"; a menu read succeeds only for an existing available
\* item, and nothing is persisted by the failing request.
C9_UnavailableIsNotFound == [][C9_Step]_vars

\* A request for one existing item that is not available has been answered
\* "not found".
C9_Witness ==
  /\ resp.op = "createOrder" /\ resp.error = ItemNotFound /\ resp.status = 404
  /\ Len(resp.req.items) = 1
  /\ resp.req.items[1].menuId \in DOMAIN menu
  /\ ~menu[resp.req.items[1].menuId].isAvailable
  /\ orders = <<>>

C10_Step ==
  /\ ( /\ CreateAnswered /\ creq.pc = "idle"
       /\ CreateValid(resp'.req.id, resp'.req.items)
       /\ (resp'.req.id \notin DOMAIN location \/ ~location[resp'.req.id].isActive) )
     => /\ resp'.status = 404 /\ resp'.error = LocationNotFound
        /\ orders' = orders
        /\ creq' = creq
  /\ (creq.pc = "idle" /\ creq'.pc = "pricing") =>
       /\ creq'.locationId \in DOMAIN location
       /\ location[creq'.locationId].isActive

\* C10: a well-formed create-order request of an authenticated caller whose
\* target location has no row or is inactive when the request arrives is
\* answered LocationNotFound (404) and stores nothing, the orders stored
\* earlier stay, and a request enters pricing only for an active location.
C10_InactiveLocationRejects == [][C10_Step]_vars

\* An order was stored for a location, the location was then soft-deleted,
\* and a new request for it has been refused while the order remains.
C10_Witness ==
  /\ resp.op = "createOrder" /\ resp.error = LocationNotFound /\ resp.status = 404
  /\ resp.req.id \in DOMAIN location
  /\ Len(orders) >= 1
  /\ orders[1].locationId = resp.req.id

----------------------------------------------------------------------------
(* Properties of set-status and cancel *)

Terminal == {COMPLETED, CANCELLED}

\* C3: once an order's stored status is COMPLETED or CANCELLED, no
\* set-status or cancel step of any caller changes it.
C3_TerminalIsFinal ==
  [][\A o \in DOMAIN orders :
       orders[o].status \in Terminal => orders'[o].status = orders[o].status]_vars

\* the step answered a set-status request
SetStatusAnswered == resp'.op = "setStatus"

C4_Step ==
  SetStatusAnswered =>
    /\ (resp'.caller.kind = "valid" /\ resp'.caller.role \in {CUSTOMER, WAITER}) =>
         /\ resp'.status = 403 /\ resp'.error = "Insufficient permissions"
         /\ orders' = orders
         /\ emitted' = <<>>
    /\ orders' # orders =>
         (resp'.caller.kind = "valid" /\ resp'.caller.role \in {KITCHEN, ADMIN})

\* C4: a set-status request of an authenticated CUSTOMER or WAITER is
\* answered Forbidden, changes no stored status and publishes no event; a
\* set-status request that changes a status comes from KITCHEN or ADMIN.
C4_SetStatusRoleGated == [][C4_Step]_vars

\* A customer's set-status on a stored order has been refused.
C4_Witness ==
  /\ resp.op = "setStatus" /\ resp.status = 403
  /\ resp.caller.role = CUSTOMER
  /\ Len(orders) >= 1

C5_Step ==
  ( /\ SetStatusAnswered
    /\ resp'.caller.kind = "valid" /\ resp'.caller.role \in {KITCHEN, ADMIN}
    /\ resp'.req.id \in DOMAIN orders
    /\ resp'.req.status \in OrderStatus )
  => /\ resp'.status = 200
     /\ resp'.order = resp'.req.id
     /\ orders'[resp'.req.id].status = resp'.req.status

\* C5: a set-status request of a KITCHEN or ADMIN caller for an existing
\* order and any of the four statuses succeeds, and the stored status is
\* then the target, whatever it was before.
C5_SetStatusUnguarded == [][C5_Step]_vars

\* A kitchen caller's set-status has moved an order, created PENDING, to
\* IN_PROGRESS and has been answered with it.
C5_Witness ==
  /\ resp.op = "setStatus" /\ resp.status = 200
  /\ resp.caller.role = KITCHEN
  /\ resp.req.status = IN_PROGRESS
  /\ orders[resp.req.id].status = IN_PROGRESS

\* a customer who is not the order's owner
Stranger(user, o) == user.role = CUSTOMER /\ o.userId # user.id

\* the step answered a cancel request before its update (a rejection)
CancelRejected == resp'.op = "cancel" /\ xreq.pc = "idle" /\ xreq' = xreq

\* the step let a cancel request past its checks
CancelPassed == xreq.pc = "idle" /\ xreq'.pc = "write"

\* the step is the update of the cancel request in flight
CancelUpdated == xreq.pc = "write" /\ xreq'.pc = "idle"

C6_Step ==
  /\ CancelPassed =>
       /\ orders[xreq'.orderId].status = PENDING
       /\ orders' = orders /\ emitted' = <<>>
  /\ CancelUpdated =>
       /\ orders'[xreq.orderId].status = CANCELLED
       /\ resp'.op = "cancel" /\ resp'.status = 200 /\ resp'.order = xreq.orderId
  /\ ( /\ CancelRejected
       /\ resp'.caller.kind = "valid"
       /\ resp'.req.id \in DOMAIN orders
       /\ ~Stranger(resp'.caller, orders[resp'.req.id]) )
     => /\ orders[resp'.req.id].status # PENDING
        /\ resp'.status = 400 /\ resp'.error = "Can only cancel pending orders"
        /\ orders' = orders /\ emitted' = <<>>

\* C6: cancel is guarded by the status it reads: a cancel passes its checks
\* only on a PENDING order and its update stores CANCELLED; an authorized
\* cancel of an IN_PROGRESS, COMPLETED or CANCELLED order is answered
\* InvalidTransition (400), changes no order and publishes nothing.
C6_CancelGuarded == [][C6_Step]_vars

\* A second cancel of an order that a cancel has already cancelled has been
\* refused, and the order is still CANCELLED.
C6_Witness ==
  /\ resp.op = "cancel" /\ resp.status = 400
  /\ resp.req.id \in DOMAIN orders
  /\ orders[resp.req.id].status = CANCELLED
  /\ resp.caller.id = orders[resp.req.id].userId

NotAuthorized == "Not authorized to cancel this order"

C7_Step ==
  ( /\ resp'.op = "cancel" /\ xreq.pc = "idle"
    /\ resp'.caller.kind = "valid"
    /\ resp'.req.id \in DOMAIN orders )
  => LET o == orders[resp'.req.id]
         stranger == Stranger(resp'.caller, o)
     IN /\ stranger =>
             /\ resp'.status = 403 /\ resp'.error = NotAuthorized
             /\ orders' = orders /\ emitted' = <<>> /\ xreq' = xreq
        /\ ~stranger => resp'.error # NotAuthorized

\* C7: a cancel by a CUSTOMER who does not own the order is answered
\* Forbidden whatever the order's status and changes nothing; the owner and
\* every WAITER, KITCHEN or ADMIN caller are never refused by the
\* ownership check, and pass it on every PENDING order.
C7_CancelAuthorization ==
  [][C7_Step /\ (CancelPassed => ~Stranger(xreq'.user, orders[xreq'.orderId]))]_vars

\* A customer's cancel of another user's order that is no longer PENDING
\* has been refused as Forbidden, not as InvalidTransition.
C7_Witness ==
  /\ resp.op = "cancel" /\ resp.status = 403 /\ resp.error = NotAuthorized
  /\ resp.caller.role = CUSTOMER
  /\ orders[resp.req.id].status = COMPLETED

----------------------------------------------------------------------------
(* Properties of publication *)

\* how many of the events go to the room
CountTo(events, room) ==
  Cardinality({i \in 1..Len(events) : events[i].room = room})

\* the step answered a set-status or cancel request with success
StatusChanged == resp'.op \in {"setStatus", "cancel"} /\ resp'.status = 200

C11_Step ==
  /\ StatusChanged =>
       LET o == orders'[resp'.order]
           cancel == resp'.op = "cancel"
       IN /\ o.status = IF cancel THEN CANCELLED ELSE resp'.req.status
          /\ Len(emitted') = 2
          /\ CountTo(emitted', LocationRoom(o.locationId)) = 1
          /\ CountTo(emitted', UserRoom(o.userId)) = 1
          /\ \A i \in 1..Len(emitted') :
               /\ emitted'[i].payload = o
               /\ emitted'[i].event = IF cancel THEN "orderCancelled" ELSE "orderStatusUpdated"
  /\ (\E o \in DOMAIN orders : orders'[o].status # orders[o].status) => StatusChanged

\* C11: every step that changes a stored status answers with success and
\* publishes exactly two events, one to the room of the order's location
\* and one to the room of the order's owner, each carrying the order as
\* stored with its new status, and nothing to any other room.
C11_StatusChangePublished == [][C11_Step]_vars

\* The waiter has cancelled a customer's order: the second event went to
\* the owner's room, not to the caller's.
C11_Witness ==
  /\ resp.op = "cancel" /\ resp.status = 200 /\ resp.caller.role = WAITER
  /\ orders[resp.order].userId # resp.caller.id
  /\ Len(emitted) = 2
  /\ emitted[2].room = UserRoom(orders[resp.order].userId)
  /\ emitted[2].payload.status = CANCELLED

\* the step answered a create-order request with success
CreateSucceeded == resp'.op = "createOrder" /\ resp'.status = 201

\* the events of order creation
CreateEventNames == {"newOrder", "orderCreated"}

C12_Step ==
  /\ CreateSucceeded =>
       LET o == orders'[resp'.order] IN
       /\ o.items # <<>>
       /\ emitted' = << Emit(LocationRoom(resp'.req.id), "newOrder", o),
                        Emit(UserRoom(resp'.caller.id), "orderCreated", o) >>
  /\ (\E i \in 1..Len(emitted') : emitted'[i].event \in CreateEventNames) => CreateSucceeded
  /\ (resp'.op = "createOrder" /\ resp'.status # 201) => emitted' = <<>>

C20_Step ==
  /\ Len(orders') >= Len(orders)
  /\ Len(orders') > Len(orders) =>
       LET o == orders'[Len(orders')] IN
       /\ Len(orders') = Len(orders) + 1
       /\ creq.pc = "tx"
       /\ o.id = Len(orders')
       /\ o.status = PENDING
       /\ o.userId = creq.user.id
       /\ o.locationId = creq.locationId
  /\ CreateSucceeded =>
       /\ orders'[resp'.order].userId = resp'.caller.id
       /\ orders'[resp'.order].locationId = resp'.req.id

\* C20: the step that makes an order visible stores it with status
\* PENDING, the authenticated caller as userId and the requested location
\* as locationId, and the order a 201 answers with has that owner and
\* location.
C20_CreatedPending == [][C20_Step]_vars

\* The waiter's order is stored and visible, PENDING, before the request
\* has been answered.
C20_Witness ==
  /\ creq.pc = "hydrate"
  /\ orders[creq.orderId].status = PENDING
  /\ orders[creq.orderId].userId = 3
  /\ creq.user.id = 3
  /\ orders[creq.orderId].locationId = creq.locationId

----------------------------------------------------------------------------
(* Properties of reading orders *)

Reverse(q) == [i \in 1..Len(q) |-> q[Len(q) + 1 - i]]

\* The orders a caller may see: a customer's own, every order for staff.
Seen(user) ==
  IF user.role = CUSTOMER THEN SelectSeq(orders, LAMBDA o : o.userId = user.id)
  ELSE orders

\* The answer to a list query computed from the orders the caller may see
\* and from nothing else.
SeenMatching(user, rq) ==
  SelectSeq(Reverse(Seen(user)),
            LAMBDA o : /\ (rq.status # "" => o.status = rq.status)
                       /\ (rq.id # 0 => o.locationId = rq.id))

SeenPage(user, rq) ==
  LET all == SeenMatching(user, rq)
      skip == (rq.items[1] - 1) * rq.items[2]
  IN [i \in 1..(IF Len(all) - skip > rq.items[2] THEN rq.items[2]
                 ELSE IF Len(all) > skip THEN Len(all) - skip ELSE 0) |-> all[skip + i]]

\* the step in which findMany resolved, and the step in which count did;
\* the query that resolves last also sends the response
RowsResolved == lreq.pc = "reading" /\ ~lreq.rowsRead /\ (lreq'.rowsRead \/ lreq'.pc = "idle")
CountResolved == lreq.pc = "reading" /\ ~lreq.countRead /\ (lreq'.countRead \/ lreq'.pc = "idle")

C13_Step ==
  /\ RowsResolved =>
       (IF lreq'.pc = "idle" THEN resp'.rows ELSE lreq'.rows) = SeenPage(lreq.user, lreq.req)
  /\ CountResolved =>
       (IF lreq'.pc = "idle" THEN resp'.total ELSE lreq'.total)
         = Len(SeenMatching(lreq.user, lreq.req))
  /\ (resp'.op = "listOrders" /\ resp'.status = 200) =>
       /\ lreq.pc = "reading" /\ resp'.caller = lreq.user /\ resp'.req = lreq.req
       /\ lreq.rowsRead => resp'.rows = lreq.rows
       /\ lreq.countRead => resp'.total = lreq.total
       /\ resp'.caller.role = CUSTOMER =>
            \A i \in 1..Len(resp'.rows) : resp'.rows[i].userId = resp'.caller.id
  /\ (resp'.op = "getOrder" /\ resp'.caller.kind = "valid") =>
       LET id == resp'.req.id
           mine == /\ id \in DOMAIN orders
                   /\ (resp'.caller.role = CUSTOMER => orders[id].userId = resp'.caller.id)
       IN IF mine
          THEN resp'.status = 200 /\ resp'.rows = <<orders[id]>>
          ELSE resp' = Response("getOrder", resp'.caller, StatusReq(id, ""), 404, "Order not found")

\* C13: the rows and the count of list-orders, and the answer of get-order,
\* are computed from the orders the caller may see, a customer's own and
\* all orders for WAITER, KITCHEN and ADMIN; a customer's get-order of
\* another user's order is the same 404 "Order not found" as for an id
\* without an order.
C13_CustomerVisibility == [][C13_Step]_vars

\* Two orders are stored, one of each customer; customer 1 has listed the
\* orders and was given one row and a count of one.
C13_Witness ==
  /\ resp.op = "listOrders" /\ resp.status = 200 /\ resp.caller.id = 1
  /\ Len(orders) = 2
  /\ \E o \in DOMAIN orders : orders[o].userId = 2
  /\ Len(resp.rows) = 1 /\ resp.total = 1
  /\ resp.rows[1].userId = 1

----------------------------------------------------------------------------
(* Properties of rejections *)

LifecycleOps == {"createOrder", "setStatus", "cancel", "listOrders", "getOrder"}

\* C14: every answer to an order request whose bearer token is absent,
\* invalid or expired is 401 Unauthenticated, not the 403 of a caller whose
\* role is insufficient, and the step changes no order and publishes
\* nothing.
C14_BadTokenUnauthenticated ==
  [][(resp'.op \in LifecycleOps /\ resp'.caller.kind # "valid") =>
       /\ resp'.status = 401
       /\ orders' = orders
       /\ emitted' = <<>>]_vars

\* the cart is empty, or a quantity in it is below 1
MalformedCart(items) ==
  \/ items = <<>>
  \/ \E i \in 1..Len(items) :
       \/ items[i].quantity < 1
       \/ \E k \in 1..Len(items[i].customizations) :
            items[i].customizations[k].quantity < 1

\* C15: a create-order request of an authenticated caller whose cart is
\* empty or holds a menu-item quantity or a customization quantity below 1
\* is answered 400 "Validation failed" with the orders unchanged, and never
\* gets past the validators to the reads and the transaction.
C15_MalformedCartRejected ==
  [][ /\ (resp'.op = "createOrder" /\ resp'.caller.kind = "valid"
           /\ MalformedCart(resp'.req.items)) =>
            (resp'.status = 400 /\ resp'.error = "Validation failed" /\ orders' = orders)
      /\ creq'.pc # "idle" => ~MalformedCart(creq'.items) ]_vars

\* A cart with a customization quantity of 0 has been answered 201.
C15_ZeroQuantityCreated ==
  /\ resp.op = "createOrder" /\ resp.status = 201
  /\ \E i \in 1..Len(resp.req.items) : \E k \in 1..Len(resp.req.items[i].customizations) :
       resp.req.items[i].customizations[k].quantity < 1

\* C17: set-status and cancel of a caller who passes the route's gates,
\* and get-order, called with an id that no order has, are answered 404
\* "Order not found", change no order and publish nothing.
C17_MissingOrderNotFound ==
  [][(/\ resp'.op \in {"setStatus", "cancel", "getOrder"}
      /\ resp'.caller.kind = "valid"
      /\ resp'.req # NoReq
      /\ resp'.op = "setStatus" => resp'.req.status \in OrderStatus
      /\ resp'.req.id \notin DOMAIN orders) =>
       /\ resp'.status = 404 /\ resp'.error = "Order not found"
       /\ orders' = orders
       /\ emitted' = <<>>]_vars

----------------------------------------------------------------------------
(* Properties of stored orders *)

C19_LinesAtOrderLocation ==
  \A o \in DOMAIN orders : \A i \in DOMAIN orders[o].items :
    /\ orders[o].items[i].menuId \in DOMAIN menu
    /\ menu[orders[o].items[i].menuId].locationId = orders[o].locationId

\* An order is stored and its menu item has since been repriced and
\* soft-deleted.
C19_Witness ==
  /\ Len(orders) = 1
  /\ writes = 2
  /\ menu[orders[1].items[1].menuId].price # orders[1].items[1].priceAtTime
  /\ ~menu[orders[1].items[1].menuId].isAvailable

----------------------------------------------------------------------------
(* Properties of concurrent status changes *)

\* C21 as claimed: the status stored immediately before the write of a
\* cancel is PENDING, so the write never replaces an IN_PROGRESS or
\* COMPLETED status stored since the cancel read the order.
C21_CancelWritesOverPending ==
  [][CancelUpdated => orders[xreq.orderId].status = PENDING]_vars

C21_Step ==
  /\ CancelPassed => orders[xreq'.orderId].status = PENDING
  /\ CancelUpdated =>
       /\ resp'.op = "cancel" /\ resp'.status = 200
       /\ orders' = [orders EXCEPT ![xreq.orderId].status = CANCELLED]

\* C21 (amended): a cancel that reports success read the status PENDING at
\* its lookup; its write is unconditional, so whatever status a set-status
\* request stored between the read and the write is replaced by CANCELLED
\* (the last writer wins).
C21_CancelLastWriterWins == [][C21_Step]_vars

\* A cancel is between its read and its write, and the order it read as
\* PENDING has been completed meanwhile.
C21_Witness ==
  /\ xreq.pc = "write"
  /\ orders[xreq.orderId].status = COMPLETED

----------------------------------------------------------------------------
(* Properties of the location and menu routes *)

CatalogueOps ==
  {"createLocation", "deleteLocation", "updateMenu", "deleteMenu",
   "updateCustomization", "deleteCustomization"}

\* C27: a request to a location or menu mutation route with a valid token
\* passes access control when the token's role is ADMIN, and is answered
\* 403 Forbidden when it is any other role.
C27_AdminOnlyRoutes ==
  [][(resp'.op \in CatalogueOps /\ resp'.caller.kind = "valid") =>
       IF resp'.caller.role = ADMIN THEN resp'.status \notin {401, 403}
       ELSE resp'.status = 403]_vars

----------------------------------------------------------------------------
(* Properties of the socket connections *)

\* the events named orderStatusUpdated that a connection receives from a step
StatusUpdatesReceived(s) ==
  SelectSeq(Receives(s, emitted'), LAMBDA e : e.event = "orderStatusUpdated")

\* the location rooms clients can name or orders can live in
LocationRooms == {LocationRoom(l) : l \in LocationInputs \cup JoinInputs}

\* C22: every orderStatusUpdated event a connection receives on a location
\* room reports a status that is stored for an order of that location; no
\* client action over the socket makes subscribers receive one for a status
\* that was never stored.
C22_StatusEventsArePersisted ==
  [][\A s \in SocketIds :
       \A i \in 1..Len(StatusUpdatesReceived(s)) :
         LET e == StatusUpdatesReceived(s)[i] IN
         e.room \in LocationRooms =>
           \E o \in DOMAIN orders' :
             /\ LocationRoom(orders'[o].locationId) = e.room
             /\ orders'[o].status = e.payload.status]_vars

\* the step answered a set-status, cancel or create-order request with success
LifecycleSucceeded ==
  /\ resp'.op \in {"createOrder", "setStatus", "cancel"}
  /\ resp'.status \in {200, 201}

\* the rooms a lifecycle change of this order is published to
TargetRooms(o) == {LocationRoom(o.locationId), UserRoom(o.userId)}

\* C25 as claimed: for each successful lifecycle change every live
\* connection receives at most one copy of the event, the owner's
\* connection that joined the location room included.
C25_AtMostOneCopy ==
  [][LifecycleSucceeded =>
       \A s \in SocketIds : Len(Receives(s, emitted')) <= 1]_vars

\* C25, amended: for each successful lifecycle change a live connection
\* receives one copy of the event for each of the two target rooms (the
\* order's location room, the owner's room) it is in, and no more: one room
\* never delivers twice, and a connection in both rooms receives two copies.
C25_OneCopyPerRoom ==
  [][LifecycleSucceeded =>
       LET o == orders'[resp'.order] IN
       \A s \in SocketIds :
         /\ Len(Receives(s, emitted')) = Cardinality(TargetRooms(o) \cap sockets[s].rooms)
         /\ \A r \in TargetRooms(o) :
              Cardinality({i \in 1..Len(emitted') : emitted'[i].room = r}) = 1]_vars

\* The owner's connection had joined the location room of its order when
\* the kitchen set the order's status: it received the event twice.
C25_Witness ==
  /\ resp.op = "setStatus" /\ resp.status = 200
  /\ \E s \in SocketIds :
       /\ sockets[s].user.id = orders[resp.order].userId
       /\ LocationRoom(orders[resp.order].locationId) \in sockets[s].rooms
       /\ Len(Receives(s, emitted)) = 2

\* the rooms named after a user
PersonalRooms == {UserRoom(u) : u \in UserIds \cup JoinInputs}

C26_Membership ==
  \A s \in SocketIds :
    IF sockets[s].live
    THEN sockets[s].rooms \cap PersonalRooms = {UserRoom(sockets[s].user.id)}
    ELSE sockets[s].rooms = {}

C26_Step ==
  \A s \in SocketIds :
    \A i \in 1..Len(emitted') :
      \A u \in UserIds :
        (emitted'[i].room = UserRoom(u) /\ Len(Receives(s, <<emitted'[i]>>)) > 0)
          => sockets[s].user.id = u

\* C26: in every reachable state a live connection is in exactly one
\* personal room, that of the user id of its verified token, whatever
\* locationId values it sent with joinLocation and leaveLocation; an event
\* published to a user's personal room reaches only that user's connections.
C26_OnePersonalRoom == []C26_Membership /\ [][C26_Step]_vars

\* A customer's connection has joined the rooms location_1 and location_4,
\* 1 and 4 being user ids as well, and left none of its own, while the
\* kitchen user 4 is connected and an event went to the room of user 1.
C26_Witness ==
  /\ \E s, t \in SocketIds :
       /\ sockets[s].live /\ sockets[s].user.id = 2
       /\ sockets[s].rooms = {UserRoom(2), LocationRoom(1), LocationRoom(4)}
       /\ sockets[t].live /\ sockets[t].user.id = 4
  /\ Len(emitted) = 2 /\ emitted[2].room = UserRoom(1)

----------------------------------------------------------------------------
(* Properties of racing status changes and of failures after the commit *)

StatusEventNames == {"orderStatusUpdated", "orderCancelled"}

\* no status change of this order is between its lookup and its emits
Settled(orderId) ==
  /\ \A j \in 1..Len(sreq') : sreq'[j].orderId # orderId
  /\ ~(xreq'.pc = "write" /\ xreq'.orderId = orderId)

\* C24: when concurrent status changes of one order have all succeeded, the
\* last lifecycle event published to the location room and to the owner's
\* room carries the status that is stored for the order.
C24_LastEventCarriesStoredStatus ==
  [][\A i \in 1..Len(emitted') :
       (emitted'[i].event \in StatusEventNames /\ Settled(emitted'[i].payload.id))
         => emitted'[i].payload.status = orders'[emitted'[i].payload.id].status]_vars

\* C23: whenever create-order answers with an error, no Order row written
\* by that request is in the store, failures after the commit included.
C23_NoOrderAfterError ==
  [][(resp'.op = "createOrder" /\ resp'.status # 201)
       => creq.orderId \notin DOMAIN orders']_vars

====
